---- MODULE Spec2Model ----
(***************************************************************************)
(* A model of water.py (brianwarner/water): attribution of the lines of a  *)
(* snapshot to the commits of a git history.                               *)
(*                                                                         *)
(* Text is modelled as sequences of one-character strings, bytes as        *)
(* sequences of byte tokens (an ASCII byte is written as its character or, *)
(* for a control byte without an escape, as "x0B", "x1C"; the bytes of a   *)
(* two-byte UTF-8 sequence as "xC3","xA9"; an invalid byte as "xFF").      *)
(*                                                                         *)
(* SpecFile is the body of analyze_file for one file, one step per log     *)
(* line and per snapshot line.  Spec is the whole program: option parsing, *)
(* header, directory walk, pool dispatch and the workers' appends.         *)
(***************************************************************************)
EXTENDS Integers, Sequences, FiniteSets, TLC

VARIABLES
    \* ---- globals set by the main program (lines 316-325) ----
    sensitivity, multithreaded, verbose, obnoxious, ignore_files, source, repo,
    \* ---- the main program: the option being parsed and the number of
    \*      options parsed (in the loop of line 333), its position, the
    \*      directories os.walk has yet to yield, the pool ----
    opt, nopts, mainpc, walk, pool,
    \* ---- the processes that run analyze_file ----
    proc,
    \* ---- the content of the output file ----
    outfile,
    \* ---- the snapshot: its directories, what os.walk has reported of
    \*      them so far, the files that cannot be opened ----
    tree, listing, broken,
    \* ---- analyze_file on one file, step by step (SpecFile) ----
    fpc, git_log_raw, loglines, line, ctx, git_log, readable,
    fileline, seen, matched, unmatched, data, pending,
    \* ---- record of the run, for stating properties ----
    analyzed, raised, log_order

vars == <<sensitivity, multithreaded, verbose, obnoxious, ignore_files, source, repo,
          opt, nopts, mainpc, walk, pool, proc, outfile, tree, listing, broken,
          fpc, git_log_raw, loglines, line, ctx, git_log, readable,
          fileline, seen, matched, unmatched, data, pending, analyzed,
          raised, log_order>>

mainvars == <<multithreaded, verbose, obnoxious, ignore_files, source, repo,
              opt, nopts, mainpc, walk, pool, proc, tree, listing, broken, analyzed,
              raised>>

filevars == <<fpc, git_log_raw, loglines, line, ctx, git_log, readable,
              fileline, seen, matched, unmatched, data, pending, log_order>>

----------------------------------------------------------------------------
(* Bounds *)

MaxCommits == 3
MaxFileLines == 3
MaxOpts == 3
NumWorkers == 2

----------------------------------------------------------------------------
(* Python string and bytes primitives *)

Min(a, b) == IF a < b THEN a ELSE b

\* line.find(p) == 0
StartsWith(s, p) ==
    /\ Len(s) >= Len(p)
    /\ SubSeq(s, 1, Len(p)) = p

\* filename.endswith(p)
EndsWith(s, p) ==
    /\ Len(s) >= Len(p)
    /\ SubSeq(s, Len(s) - Len(p) + 1, Len(s)) = p

\* s[a:]
SliceFrom(s, a) == SubSeq(s, a + 1, Len(s))

\* s[a:b]
Slice(s, a, b) == SubSeq(s, a + 1, Min(b, Len(s)))

\* the bytes bytes.strip() removes: space, \t, \n, \r, \x0b, \x0c
BytesWhitespace == {" ", "\t", "\n", "\r", "x0B", "\f"}

\* the characters str.strip() removes (those str.isspace() holds for), among
\* the characters of the model: the six above, \x1c to \x1f, U+0085, U+00A0
Whitespace ==
    BytesWhitespace \cup {"x1C", "x1D", "x1E", "x1F", "U+0085", "U+00A0"}

RECURSIVE LStrip(_, _)
LStrip(s, W) ==
    IF s = <<>> THEN s
    ELSE IF Head(s) \in W THEN LStrip(Tail(s), W)
    ELSE s

RECURSIVE RStrip(_, _)
RStrip(s, W) ==
    IF s = <<>> THEN s
    ELSE IF s[Len(s)] \in W THEN RStrip(SubSeq(s, 1, Len(s) - 1), W)
    ELSE s

\* str.strip()
Strip(s) == RStrip(LStrip(s, Whitespace), Whitespace)

\* bytes.strip()
StripBytes(b) == RStrip(LStrip(b, BytesWhitespace), BytesWhitespace)

\* s.replace("'", "\\'")
\* (computed by halving, so that a long field does not nest deeply; a
\* stretch without a quote is copied)
RECURSIVE EscapeQuoteRange(_, _, _)
EscapeQuoteRange(s, lo, hi) ==
    IF lo > hi THEN <<>>
    ELSE IF \A i \in lo..hi : s[i] # "'" THEN SubSeq(s, lo, hi)
    ELSE IF lo = hi THEN <<"\\", "'">>
    ELSE LET mid == (lo + hi) \div 2
         IN EscapeQuoteRange(s, lo, mid) \o EscapeQuoteRange(s, mid + 1, hi)

EscapeQuote(s) == EscapeQuoteRange(s, 1, Len(s))

\* UTF-8: the two-byte sequences of the model, a lead byte and a continuation
\* byte, and the character each encodes
LeadBytes == {"xC2", "xC3"}

ContinuationBytes == {"x85", "xA0", "xA9"}

TwoByteChar(lead, cont) ==
    IF lead = "xC2"
    THEN (IF cont = "x85" THEN "U+0085"
          ELSE IF cont = "xA0" THEN "U+00A0" ELSE "U+00A9")
    ELSE (IF cont = "x85" THEN "U+00C5"
          ELSE IF cont = "xA0" THEN "U+00E0" ELSE "U+00E9")

TwoByteChars ==
    {TwoByteChar(l, c) : l \in LeadBytes, c \in ContinuationBytes}

\* the bytes that are not ASCII
NonAscii == LeadBytes \cup ContinuationBytes \cup {"xFF"}

\* bytes.decode("utf-8", errors='ignore'), one byte at a time: the lead byte
\* of a well-formed two-byte sequence yields the character, its continuation
\* byte is consumed with it, and a byte that is part of no sequence is dropped.
DecodeAt(b, i) ==
    IF b[i] \in LeadBytes THEN
        IF i < Len(b) /\ b[i + 1] \in ContinuationBytes
        THEN <<TwoByteChar(b[i], b[i + 1])>> ELSE <<>>
    ELSE IF b[i] \in NonAscii THEN <<>>
    ELSE <<b[i]>>

\* (computed by halving, so that long outputs do not nest deeply; a
\* stretch of ASCII bytes is copied)
RECURSIVE DecodeRange(_, _, _)
DecodeRange(b, lo, hi) ==
    IF lo > hi THEN <<>>
    ELSE IF \A i \in lo..hi : b[i] \notin NonAscii THEN SubSeq(b, lo, hi)
    ELSE IF lo = hi THEN DecodeAt(b, lo)
    ELSE LET mid == (lo + hi) \div 2
         IN DecodeRange(b, lo, mid) \o DecodeRange(b, mid + 1, hi)

Decode(b) == DecodeRange(b, 1, Len(b))

\* the bytes of one character
EncodeChar(c) ==
    IF c \in TwoByteChars
    THEN CHOOSE pair \in LeadBytes \X ContinuationBytes :
            TwoByteChar(pair[1], pair[2]) = c
    ELSE <<c>>

\* str.encode(): UTF-8
RECURSIVE EncodeRange(_, _, _)
EncodeRange(s, lo, hi) ==
    IF lo > hi THEN <<>>
    ELSE IF \A i \in lo..hi : s[i] \notin TwoByteChars THEN SubSeq(s, lo, hi)
    ELSE IF lo = hi THEN EncodeChar(s[lo])
    ELSE LET mid == (lo + hi) \div 2
         IN EncodeRange(s, lo, mid) \o EncodeRange(s, mid + 1, hi)

Encode(s) == EncodeRange(s, 1, Len(s))

\* s.split(os.linesep): the pieces between the separators, always at least
\* one (computed by halving: the last piece of the left half continues in the
\* first piece of the right half)
RECURSIVE SplitRange(_, _, _)
SplitRange(s, lo, hi) ==
    IF lo > hi THEN << <<>> >>
    ELSE IF \A i \in lo..hi : s[i] # "\n" THEN << SubSeq(s, lo, hi) >>
    ELSE IF lo = hi THEN << <<>>, <<>> >>
    ELSE LET mid == (lo + hi) \div 2
             L == SplitRange(s, lo, mid)
             R == SplitRange(s, mid + 1, hi)
         IN SubSeq(L, 1, Len(L) - 1) \o << L[Len(L)] \o R[1] >> \o Tail(R)

Split(s) == SplitRange(s, 1, Len(s))

ReverseOmitted(s) == s

\* list.reverse()
Reverse(s) == [i \in 1..Len(s) |-> s[Len(s) + 1 - i]]

\* os.path.join(a, b) for a relative b
PathJoin(a, b) ==
    IF a = <<>> \/ a[Len(a)] = "/" THEN a \o b
    ELSE a \o <<"/">> \o b

----------------------------------------------------------------------------
(* String constants of the program *)

p_diff ==
    <<"d", "i", "f", "f", " ", "-", "-", "g", "i", "t", " ">>
p_index ==
    <<"i", "n", "d", "e", "x", " ">>
p_plus3 ==
    <<"+", "+", "+", " ">>
p_minus3 ==
    <<"-", "-", "-", " ">>
p_hunk ==
    <<"@", "@", " ", "-">>
p_rename ==
    <<"r", "e", "n", "a", "m", "e", " ", "t", "o", " ">>
p_parents ==
    <<"p", "a", "r", "e", "n", "t", "s", ":", " ">>
p_indent ==
    <<" ", " ", " ", " ">>
p_hash ==
    <<"h", "a", "s", "h", ":", " ">>
p_author_name ==
    <<"a", "u", "t", "h", "o", "r", "_", "n", "a", "m", "e", ":">>
p_author_email ==
    <<"a", "u", "t", "h", "o", "r", "_", "e", "m", "a", "i", "l", ":">>
p_author_date ==
    <<"a", "u", "t", "h", "o", "r", "_", "d", "a", "t", "e", ":">>
p_committer_name ==
    <<"c", "o", "m", "m", "i", "t", "t", "e", "r", "_", "n", "a", "m", "e", ":">>
p_committer_email ==
    <<"c", "o", "m", "m", "i", "t", "t", "e", "r", "_", "e", "m", "a", "i", "l", ":">>
p_committer_date ==
    <<"c", "o", "m", "m", "i", "t", "t", "e", "r", "_", "d", "a", "t", "e", ":">>
p_plus ==
    <<"+">>
Unknown ==
    <<"(", "U", "n", "k", "n", "o", "w", "n", ")">>
Unmatched ==
    <<"U", "n", "m", "a", "t", "c", "h", "e", "d">>
NotApplicable ==
    <<"N", "/", "A">>
dot_git ==
    <<".", "g", "i", "t">>

\* a local name that has not been assigned yet (reading it raises NameError)
Unbound == <<"UNBOUND">>

----------------------------------------------------------------------------
(* analyze_file: walking the log (lines 139-220) *)

\* lines 141-142
DefaultCtx(hash) ==
    [commit_hash |-> hash,
     author_name |-> Unknown, author_email |-> Unknown, author_date |-> Unknown,
     committer_name |-> Unknown, committer_email |-> Unknown,
     committer_date |-> Unknown]

\* lines 157-164
Bypassed(l) ==
    \/ StartsWith(l, p_diff)
    \/ StartsWith(l, p_index)
    \/ StartsWith(l, p_plus3)
    \/ StartsWith(l, p_minus3)
    \/ StartsWith(l, p_hunk)
    \/ StartsWith(l, p_rename)
    \/ StartsWith(l, p_parents)
    \/ StartsWith(l, p_indent)

IsAdditionAnyMarker(l) == Len(Strip(SliceFrom(l, 1))) > 0

\* line 213
IsAddition(l) ==
    /\ StartsWith(l, p_plus)
    /\ Len(Strip(SliceFrom(l, 1))) > 0

\* lines 217-219
patchline(c, l) ==
    [commit_hash |-> c.commit_hash,
     author_name |-> c.author_name, author_email |-> c.author_email,
     author_date |-> c.author_date,
     committer_name |-> c.committer_name, committer_email |-> c.committer_email,
     committer_date |-> c.committer_date,
     linetext |-> Strip(SliceFrom(l, 1))]

\* The body of the loop of line 151 for one line.  w = [ctx, git_log, err].
LogLineStep(w, l) ==
    IF w.err # "none" THEN w
    ELSE IF Len(l) = 0 THEN w
    ELSE IF Bypassed(l) THEN w
    ELSE
      LET c1 == IF StartsWith(l, p_hash)
                THEN [w.ctx EXCEPT !.commit_hash = SliceFrom(l, 6)]
                ELSE w.ctx
      IN
      IF StartsWith(l, p_author_name) THEN
          [w EXCEPT !.ctx = [c1 EXCEPT !.author_name = EscapeQuote(SliceFrom(l, 13))]]
      ELSE IF StartsWith(l, p_author_email) THEN
          [w EXCEPT !.ctx = [c1 EXCEPT !.author_email = EscapeQuote(SliceFrom(l, 14))]]
      ELSE IF StartsWith(l, p_author_date) THEN
          [w EXCEPT !.ctx = [c1 EXCEPT !.author_date = Slice(l, 12, 22)]]
      ELSE IF StartsWith(l, p_committer_name) THEN
          [w EXCEPT !.ctx = [c1 EXCEPT !.committer_name = EscapeQuote(SliceFrom(l, 16))]]
      ELSE IF StartsWith(l, p_committer_email) THEN
          [w EXCEPT !.ctx = [c1 EXCEPT !.committer_email = EscapeQuote(SliceFrom(l, 17))]]
      ELSE IF StartsWith(l, p_committer_date) THEN
          [w EXCEPT !.ctx = [c1 EXCEPT !.committer_date = Slice(l, 16, 26)]]
      ELSE IF IsAddition(l) THEN
          IF c1.commit_hash = Unbound
          THEN [w EXCEPT !.ctx = c1, !.err = "NameError"]
          ELSE [w EXCEPT !.ctx = c1, !.git_log = Append(w.git_log, patchline(c1, l))]
      ELSE [w EXCEPT !.ctx = c1]

\* The whole loop of lines 151-220.
RECURSIVE WalkLog(_, _)
WalkLog(w, ls) ==
    IF ls = <<>> THEN w
    ELSE WalkLog(LogLineStep(w, Head(ls)), Tail(ls))

----------------------------------------------------------------------------
(* analyze_file: the table of lines 107-113 and its statements *)

KeyFields ==
    {"filename", "author_name", "author_email", "author_date",
     "committer_name", "committer_email", "committer_date", "commit_hash"}

KeyOf(r) == [f \in KeyFields |-> r[f]]

\* the MatchKey of a patch record for a file
MatchKey(current_file, g) ==
    [filename |-> current_file,
     author_name |-> g.author_name, author_email |-> g.author_email,
     author_date |-> g.author_date,
     committer_name |-> g.committer_name, committer_email |-> g.committer_email,
     committer_date |-> g.committer_date,
     commit_hash |-> g.commit_hash]

RowOf(k, n) ==
    [filename |-> k.filename,
     author_name |-> k.author_name, author_email |-> k.author_email,
     author_date |-> k.author_date,
     committer_name |-> k.committer_name, committer_email |-> k.committer_email,
     committer_date |-> k.committer_date,
     commit_hash |-> k.commit_hash, number_lines |-> n]

InsertWithoutConstraint(d, r) == Append(d, r)

\* INSERT into a table declared unique(...) ON CONFLICT IGNORE (lines 111-113):
\* a row whose key is already present is not inserted.
Insert(d, r) ==
    IF \E i \in 1..Len(d) : KeyOf(d[i]) = KeyOf(r) THEN d
    ELSE Append(d, r)

\* lines 262-270
InsertOrIgnore(d, k) == Insert(d, RowOf(k, 0))

UpdateCountOmitted(d, k) == d

\* lines 272-280
UpdateCount(d, k) ==
    [i \in 1..Len(d) |->
        IF KeyOf(d[i]) = k
        THEN [d[i] EXCEPT !.number_lines = d[i].number_lines + 1]
        ELSE d[i]]

UnmatchedKey(current_file) ==
    [filename |-> current_file,
     author_name |-> Unmatched, author_email |-> Unmatched,
     author_date |-> Unmatched,
     committer_name |-> Unmatched, committer_email |-> Unmatched,
     committer_date |-> Unmatched,
     commit_hash |-> NotApplicable]

InsertUnmatchedAlways(d, current_file, n) ==
    Append(d, [filename |-> current_file,
               author_name |-> Unmatched, author_email |-> Unmatched,
               author_date |-> Unmatched,
               committer_name |-> Unmatched, committer_email |-> Unmatched,
               committer_date |-> Unmatched,
               commit_hash |-> NotApplicable, number_lines |-> n])

\* lines 287-295
InsertUnmatched(d, current_file, n) ==
    IF n # 0 THEN Insert(d, RowOf(UnmatchedKey(current_file), n)) ELSE d

----------------------------------------------------------------------------
(* analyze_file: walking the snapshot file (lines 238-285) *)

\* the scan of lines 251-282: the index of the first record, from position i
\* on, whose encoded linetext equals the stripped line; 0 when there is none
RECURSIVE FirstMatch(_, _, _)
FirstMatch(gl, text, i) ==
    IF i > Len(gl) THEN 0
    ELSE IF Encode(gl[i].linetext) = text THEN i
    ELSE FirstMatch(gl, text, i + 1)

TooShortInclusive(fl, sens) == Len(StripBytes(fl)) <= sens.val

\* len(fileline.strip()) < sensitivity, for an int sensitivity (an int
\* compared with a str raises TypeError).  sens = [kind, val].
TooShort(fl, sens) == Len(StripBytes(fl)) < sens.val

\* lines 257-280: a matched line
OnMatch(m, k) ==
    [m EXCEPT !.matched = m.matched + 1,
              !.data = UpdateCount(InsertOrIgnore(m.data, k), k)]

OnNoMatchForgotten(m) == m

\* lines 284-285: a line that matched no record
OnNoMatch(m) == [m EXCEPT !.unmatched = m.unmatched + 1]

\* The body of the loop of line 241 for one line.
\* m = [matched, unmatched, data, err].
FileLineStep(m, fl, gl, current_file, sens) ==
    IF m.err # "none" THEN m
    ELSE IF sens.kind # "int" THEN [m EXCEPT !.err = "TypeError"]
    ELSE IF TooShort(fl, sens) THEN m
    ELSE
      LET i == FirstMatch(gl, StripBytes(fl), 1) IN
      IF i = 0 THEN OnNoMatch(m)
      ELSE OnMatch(m, MatchKey(current_file, gl[i]))

\* The loop of lines 241-285 over a whole file.
RECURSIVE WalkFile(_, _, _, _, _)
WalkFile(m, fls, gl, current_file, sens) ==
    IF fls = <<>> THEN m
    ELSE WalkFile(FileLineStep(m, Head(fls), gl, current_file, sens),
                  Tail(fls), gl, current_file, sens)

----------------------------------------------------------------------------
(* The output file, as the sequence of records written to it.  csv.writer   *)
(* hands each row to the text stream in one piece; the stream keeps rows    *)
(* until the next one would not fit in its buffer, passes what it holds on  *)
(* in one write(), and passes the rest on at close.  A write() carries      *)
(* whole rows.  The file is opened in append mode: each write() lands at    *)
(* the end.                                                                 *)

\* io.DEFAULT_BUFFER_SIZE, the size in bytes of the buffer of open()
BufferSize == 8192

\* str(n) for n >= 0
RECURSIVE DigitsOf(_)
DigitsOf(n) ==
    IF n < 10 THEN <<<<"0", "1", "2", "3", "4", "5", "6", "7", "8", "9">>[n + 1]>>
    ELSE DigitsOf(n \div 10) \o DigitsOf(n % 10)

\* the columns of the table, in the order of lines 107-110
Columns ==
    <<"filename", "author_name", "author_email", "author_date",
      "committer_name", "committer_email", "committer_date", "commit_hash",
      "number_lines">>

\* csv.writer quotes a field that holds the delimiter, the quote character
\* or a character of the line terminator, and doubles the quotes in it
QuotedField(v) ==
    IF \E i \in 1..Len(v) : v[i] \in {",", "\"", "\r", "\n"}
    THEN Len(v) + 2 + Cardinality({i \in 1..Len(v) : v[i] = "\""})
    ELSE Len(v)

\* the number of bytes of a field of a row, as csv.writer and the utf-8
\* encoding of the stream write it
FieldBytes(r, c) ==
    IF c = "number_lines" THEN Len(DigitsOf(r[c]))
    ELSE QuotedField(Encode(r[c]))

RECURSIVE SumFieldBytes(_, _)
SumFieldBytes(r, i) ==
    IF i > Len(Columns) THEN 0
    ELSE FieldBytes(r, Columns[i]) + SumFieldBytes(r, i + 1)

\* the number of bytes of a row: its fields, the commas between them, "\r\n"
RowBytes(r) == SumFieldBytes(r, 1) + (Len(Columns) - 1) + 2

\* lines 305-308: csv_writer.writerows(data)
Serialize(d) == [i \in 1..Len(d) |-> [kind |-> "row", row |-> d[i]]]

\* lines 404-408
HeaderUnits ==
    << [kind |-> "bom", row |-> <<>>],
       [kind |-> "header", row |-> <<>>] >>

\* what an earlier run left in the output file
StaleUnits ==
    << [kind |-> "stale", row |-> <<>>] >>

\* the number of bytes of the first n rows of u
RECURSIVE PrefixBytes(_, _)
PrefixBytes(u, n) ==
    IF n = 0 THEN 0 ELSE PrefixBytes(u, n - 1) + RowBytes(u[n].row)

\* the number of rows the next write() carries: the rows that fit in the
\* buffer together; a row larger than the buffer is written alone
ChunkLen(u) ==
    IF u = <<>> THEN 0
    ELSE CHOOSE n \in 1..Len(u) :
            /\ n = 1 \/ PrefixBytes(u, n) <= BufferSize
            /\ n = Len(u) \/ PrefixBytes(u, n + 1) > BufferSize

FirstChunkWithoutLastRow(u) == SubSeq(u, 1, ChunkLen(u) - 1)

\* the rows of one write()
FirstChunk(u) == SubSeq(u, 1, ChunkLen(u))

\* the rows still buffered after it
RestChunk(u) == SubSeq(u, ChunkLen(u) + 1, Len(u))

----------------------------------------------------------------------------
(* Inputs: the output of git log for a file, and the lines of a snapshot *)

Digit(i) == <<"0", "1", "2", "3", "4", "5", "6", "7", "8", "9">>[i + 1]

HashOf(i) == <<"c", Digit(i)>>

\* the commit whose author has a name as long as the buffer of the output
LongCommit == 6

LongName == [i \in 1..BufferSize |-> "A"]

NameOf(i) ==
    IF i = LongCommit THEN LongName
    ELSE IF i % 2 = 1 THEN <<"A", "l">> ELSE <<"O", "'", "N">>

EmailOf(i) == IF i % 2 = 1 THEN <<"a", "l", "@", "x">> ELSE <<"o", "n", "@", "x">>

DateOf(i) ==
    <<"2", "0", "2", "0", "-", "0", "1", "-", "0", Digit(i)>>
    \o <<" ", "1", "0", ":", "0", "0", ":", "0", "0", " ", "+", "0", "0", "0", "0">>

\* the committer of every third commit is not its author
CommitterOf(i) == IF i % 3 = 0 THEN i + 1 ELSE i

HeaderLines(i) ==
    << p_hash \o HashOf(i),
       p_author_name \o <<" ">> \o NameOf(i),
       p_author_email \o <<" ">> \o EmailOf(i),
       p_author_date \o DateOf(i),
       p_committer_name \o <<" ">> \o NameOf(CommitterOf(i)),
       p_committer_email \o <<" ">> \o EmailOf(CommitterOf(i)),
       p_committer_date \o <<" ">> \o DateOf(i),
       <<"E", "n", "d", "P", "a", "t", "c", "h">>,
       <<"d", "i", "f", "f", " ", "-", "-", "g", "i", "t", " ", "a", "/", "f", " ", "b", "/", "f">>,
       <<"i", "n", "d", "e", "x", " ", "1", ".", ".", "2">>,
       <<"-", "-", "-", " ", "a", "/", "f">>,
       <<"+", "+", "+", " ", "b", "/", "f">>,
       <<"@", "@", " ", "-", "1", " ", "+", "1", " ", "@", "@">> >>

t_hello == <<"h", "e", "l", "l", "o">>
t_world == <<"w", "o", "r", "l", "d">>
t_abcd == <<"a", "b", "c", "d">>
t_abce == <<"a", "b", "c", "xC3", "xA9">>
\* the text of a line that begins with an increment: "++ i;"
t_incr == <<"+", "+", " ", "i", ";">>

\* the patch bodies a commit can have (an added line that begins with a
\* blank and a no-break space; one made of a blank, a form feed and a
\* no-break space)
PatchBodies ==
    << << <<"+">> \o t_hello, <<"+">> \o t_world >>,
       << <<"-">> \o t_hello, <<"+", " ", "xC2", "xA0">> \o t_world, <<" ">> \o t_abcd >>,
       << <<"+">> \o t_abce, <<"+", " ", "\f", "xC2", "xA0">>, <<"+">> \o t_incr >> >>

RECURSIVE JoinLines(_)
JoinLines(ls) ==
    IF ls = <<>> THEN <<>>
    ELSE Head(ls) \o <<"\n">> \o JoinLines(Tail(ls))

\* The log of the commits i, i-1, .., 1, most recent first; pick[j] = 0 when
\* commit j did not touch the file.  Commits are separated by an empty line.
RECURSIVE RawLog(_, _)
RawLog(pick, i) ==
    IF i = 0 THEN <<>>
    ELSE IF pick[i] = 0 THEN RawLog(pick, i - 1)
    ELSE LET rest == RawLog(pick, i - 1) IN
         JoinLines(HeaderLines(i) \o PatchBodies[pick[i]])
         \o (IF rest = <<>> THEN <<>> ELSE <<"\n">> \o rest)

LogOutputs ==
    {RawLog(pick, MaxCommits) : pick \in [1..MaxCommits -> 0..Len(PatchBodies)]}

\* The header of commit i with its field lines cut after line last of
\* HeaderLines (1: the hash line only; 4: the hash and the author lines).
ShortHeaderLines(i, last) ==
    SubSeq(HeaderLines(i), 1, last) \o SubSeq(HeaderLines(i), 8, Len(HeaderLines(i)))

\* Logs of two commits in which the header of the older commit lacks field
\* lines.  The format of lines 123-128 makes git print all six for every
\* commit, so these are not in LogOutputs; the loop of line 151 takes the
\* lines as they come, and these are the lines on which it meets a field
\* not seen since a hash line.
ShortHeaderLogs ==
    { JoinLines(HeaderLines(2) \o PatchBodies[1]) \o <<"\n">>
      \o JoinLines(ShortHeaderLines(1, last) \o PatchBodies[b]) :
        last \in {1, 4}, b \in {1, 2} }

\* the lines a snapshot file is made of, as the file iterator yields them
FileLines ==
    { t_hello \o <<"\n">>,
      <<"\t">> \o t_world \o <<"\f", "\n">>,
      t_abcd \o <<"\n">>,
      t_abce \o <<"\n">> }

CurrentFile == <<"/", "s", "n", "a", "p", "/", "f">>

DefaultSensitivity == [kind |-> "int", val |-> 5]

\* line 375: the argument of -S is kept as the string getopt returned
\* (kind "str"; val is the number the string spells)
OptionSensitivity == [kind |-> "str", val |-> 6]

----------------------------------------------------------------------------
(* SpecFile: analyze_file on one file *)

\* a process that is not inside analyze_file
NoTask ==
    [pc |-> "idle", dir |-> <<>>, root |-> <<>>, filenames |-> <<>>, idx |-> 0,
     commit_hash |-> Unbound, pending |-> <<>>]

NoOption == [name |-> "", arg |-> <<>>]

InitFileOn(logs) ==
    /\ sensitivity \in {DefaultSensitivity, OptionSensitivity}
    /\ multithreaded = FALSE
    /\ verbose = FALSE
    /\ obnoxious = FALSE
    /\ ignore_files = TRUE
    /\ source = <<"/", "s", "n", "a", "p", "/">>
    /\ repo = <<"/", "r", "e", "p", "o">>
    /\ opt = NoOption
    /\ nopts = 0
    /\ tree = {}
    /\ listing = <<>>
    /\ broken = {}
    /\ raised = {}
    /\ mainpc = "file"
    /\ walk = <<>>
    /\ pool = [created |-> FALSE, queue |-> <<>>, closed |-> FALSE]
    /\ proc = [p \in {0} |-> NoTask]
    /\ analyzed = <<>>
    /\ outfile = HeaderUnits
    /\ fpc = "popen"
    /\ git_log_raw \in logs
    /\ readable \in BOOLEAN
    /\ loglines = <<>>
    /\ line = <<>>
    /\ ctx = DefaultCtx(Unbound)
    /\ git_log = <<>>
    /\ fileline = <<>>
    /\ seen = <<>>
    /\ matched = 0
    /\ unmatched = 0
    /\ data = <<>>
    /\ pending = <<>>
    /\ log_order = <<>>

\* one call on a file whose log is one that git prints
InitFile == InitFileOn(LogOutputs)

\* one call on a file whose log may have a header that lacks field lines
InitLog == InitFileOn(LogOutputs \cup ShortHeaderLogs)

\* lines 131-151: run git, read and decode its output, split it into lines
ReadLog ==
    /\ fpc = "popen"
    /\ loglines' = Split(Decode(git_log_raw))
    /\ ctx' = DefaultCtx(ctx.commit_hash)
    /\ git_log' = <<>>
    /\ fpc' = "log"
    /\ UNCHANGED <<git_log_raw, line, readable, fileline, seen, matched, unmatched,
                   data, pending, sensitivity, outfile, log_order,
                   mainvars>>

\* lines 151-220: one line of the log
LogLine ==
    /\ fpc = "log"
    /\ loglines # <<>>
    /\ LET w == LogLineStep([ctx |-> ctx, git_log |-> git_log, err |-> "none"],
                            Head(loglines))
       IN /\ line' = Head(loglines)
          /\ loglines' = Tail(loglines)
          /\ ctx' = w.ctx
          /\ git_log' = w.git_log
          /\ fpc' = IF w.err = "none" THEN "log" ELSE w.err
    /\ UNCHANGED <<git_log_raw, readable, fileline, seen, matched, unmatched,
                   data, pending, sensitivity, outfile, log_order,
                   mainvars>>

\* line 227
ReverseLog ==
    /\ fpc = "log"
    /\ loglines = <<>>
    /\ git_log' = Reverse(git_log)
    /\ log_order' = git_log
    /\ fpc' = "open"
    /\ UNCHANGED <<git_log_raw, loglines, line, ctx, readable, fileline, seen,
                   matched, unmatched, data, pending, sensitivity, outfile,
                   mainvars>>

\* lines 236-239: open() raises when the file cannot be opened
OpenSnapshot ==
    /\ fpc = "open"
    /\ fpc' = IF readable THEN "lines" ELSE "OSError"
    /\ matched' = 0
    /\ unmatched' = 0
    /\ UNCHANGED <<git_log_raw, loglines, line, ctx, git_log, readable, fileline,
                   seen, data, pending, sensitivity, outfile, log_order,
                   mainvars>>

\* lines 241-285: one line of the snapshot file
FileLine ==
    /\ fpc = "lines"
    /\ Len(seen) < MaxFileLines
    /\ \E fl \in FileLines :
        LET m == FileLineStep([matched |-> matched, unmatched |-> unmatched,
                               data |-> data, err |-> "none"],
                              fl, git_log, CurrentFile, sensitivity)
        IN /\ fileline' = fl
           /\ seen' = Append(seen, fl)
           /\ matched' = m.matched
           /\ unmatched' = m.unmatched
           /\ data' = m.data
           /\ fpc' = IF m.err = "none" THEN "lines" ELSE m.err
    /\ UNCHANGED <<git_log_raw, loglines, line, ctx, git_log, readable, pending,
                   sensitivity, outfile, log_order,
                   mainvars>>

ReadFailsAfterFlush ==
    /\ fpc = "lines"
    /\ fpc' = "OSError"
    /\ outfile' = outfile \o Serialize(data)
    /\ UNCHANGED <<git_log_raw, loglines, line, ctx, git_log, readable, fileline,
                   seen, matched, unmatched, data, pending, sensitivity,
                   log_order, mainvars>>

\* line 241: the read of the next line of the snapshot file raises (an I/O
\* error); analyze_file ends there, the table is dropped with the process
\* state and nothing is written
ReadFails ==
    /\ fpc = "lines"
    /\ fpc' = "OSError"
    /\ UNCHANGED <<git_log_raw, loglines, line, ctx, git_log, readable, fileline,
                   seen, matched, unmatched, data, pending, sensitivity, outfile,
                   log_order, mainvars>>

EndOfFileFlushFirst ==
    /\ fpc = "lines"
    /\ data' = InsertUnmatched(data, CurrentFile, unmatched)
    /\ pending' = Serialize(data)
    /\ fpc' = "flush"
    /\ UNCHANGED <<git_log_raw, loglines, line, ctx, git_log, readable, fileline,
                   seen, matched, unmatched, sensitivity, outfile, log_order,
                   mainvars>>

\* lines 287-307: end of the file; the Unmatched row; the rows are selected
\* and handed to the csv writer
EndOfFile ==
    /\ fpc = "lines"
    /\ data' = InsertUnmatched(data, CurrentFile, unmatched)
    /\ pending' = Serialize(data')
    /\ fpc' = "flush"
    /\ UNCHANGED <<git_log_raw, loglines, line, ctx, git_log, readable, fileline,
                   seen, matched, unmatched, sensitivity, outfile, log_order,
                   mainvars>>

\* line 308: one write() of buffered rows
WriteChunk ==
    /\ fpc = "flush"
    /\ pending # <<>>
    /\ outfile' = outfile \o FirstChunk(pending)
    /\ pending' = RestChunk(pending)
    /\ UNCHANGED <<fpc, git_log_raw, loglines, line, ctx, git_log, readable,
                   fileline, seen, matched, unmatched, data, sensitivity, log_order,
                   mainvars>>

\* lines 308-310: the output file and the database are closed
CloseOutput ==
    /\ fpc = "flush"
    /\ pending = <<>>
    /\ fpc' = "done"
    /\ UNCHANGED <<git_log_raw, loglines, line, ctx, git_log, readable, fileline,
                   seen, matched, unmatched, data, pending, sensitivity,
                   outfile, log_order,
                   mainvars>>

NextFile ==
    \/ ReadLog
    \/ LogLine
    \/ ReverseLog
    \/ OpenSnapshot
    \/ FileLine
    \/ ReadFails
    \/ EndOfFile
    \/ WriteChunk
    \/ CloseOutput

SpecFile == InitFile /\ [][NextFile]_vars

\* analyze_file on every log the loop of line 151 accepts
SpecLog == InitLog /\ [][NextFile]_vars

----------------------------------------------------------------------------
(* The main program: options (lines 316-386) *)

Config ==
    [multithreaded |-> multithreaded, verbose |-> verbose, obnoxious |-> obnoxious,
     sensitivity |-> sensitivity, ignore_files |-> ignore_files,
     source |-> source, repo |-> repo]

\* os.path.isabs
IsAbs(path) == StartsWith(path, <<"/">>)

\* path.split('/')
RECURSIVE SplitPath(_)
SplitPath(path) ==
    IF \A i \in 1..Len(path) : path[i] # "/" THEN <<path>>
    ELSE LET i == CHOOSE j \in 1..Len(path) :
                      path[j] = "/" /\ \A k \in 1..(j - 1) : path[k] # "/"
         IN <<SubSeq(path, 1, i - 1)>> \o SplitPath(SubSeq(path, i + 1, Len(path)))

\* '/'.join(comps)
RECURSIVE JoinPath(_)
JoinPath(comps) ==
    IF comps = <<>> THEN <<>>
    ELSE IF Len(comps) = 1 THEN comps[1]
    ELSE comps[1] \o <<"/">> \o JoinPath(Tail(comps))

\* the loop of os.path.normpath over the components: empty components and
\* '.' are dropped, '..' removes the component before it (at the top of an
\* absolute path it is dropped, at the top of a relative one it is kept)
RECURSIVE NormComps(_, _, _)
NormComps(comps, new_comps, initial_slashes) ==
    IF comps = <<>> THEN new_comps
    ELSE LET comp == Head(comps) IN
         IF comp = <<>> \/ comp = <<".">>
         THEN NormComps(Tail(comps), new_comps, initial_slashes)
         ELSE IF \/ comp # <<".", ".">>
                 \/ (initial_slashes = 0 /\ new_comps = <<>>)
                 \/ (new_comps # <<>> /\ new_comps[Len(new_comps)] = <<".", ".">>)
         THEN NormComps(Tail(comps), Append(new_comps, comp), initial_slashes)
         ELSE IF new_comps # <<>>
         THEN NormComps(Tail(comps), SubSeq(new_comps, 1, Len(new_comps) - 1),
                        initial_slashes)
         ELSE NormComps(Tail(comps), new_comps, initial_slashes)

\* os.path.normpath
NormPath(path) ==
    IF path = <<>> THEN <<".">>
    ELSE LET initial_slashes ==
                 IF ~StartsWith(path, <<"/">>) THEN 0
                 ELSE IF StartsWith(path, <<"/", "/">>)
                         /\ ~StartsWith(path, <<"/", "/", "/">>) THEN 2
                 ELSE 1
             joined == JoinPath(NormComps(SplitPath(path), <<>>, initial_slashes))
             result == [i \in 1..initial_slashes |-> "/"] \o joined
         IN IF result = <<>> THEN <<".">> ELSE result

\* os.getcwd(): the program is started in /
Cwd == <<"/">>

\* os.path.abspath: a relative path is joined to the working directory, and
\* the path is normalised
AbsPath(path) == NormPath(IF IsAbs(path) THEN path ELSE PathJoin(Cwd, path))

\* the number a string of digits spells
RECURSIVE NumberOf(_)
NumberOf(str) ==
    IF str = <<>> THEN 0
    ELSE 10 * NumberOf(SubSeq(str, 1, Len(str) - 1))
         + (CHOOSE n \in 0..9 : Digit(n) = str[Len(str)])

\* lines 339-343
OptRepo(c, arg) ==
    [c EXCEPT !.repo = IF IsAbs(arg) THEN arg ELSE AbsPath(arg)]

\* lines 345-349
OptSource(c, arg) ==
    [c EXCEPT !.source = IF IsAbs(arg) THEN arg ELSE AbsPath(arg) \o <<"/">>]

\* lines 355-357
OptNoThreads(c) == [c EXCEPT !.multithreaded = FALSE]

\* lines 359-361
OptNoIgnore(c) == [c EXCEPT !.ignore_files = FALSE]

OptVerboseKeepsPool(c) == [c EXCEPT !.verbose = TRUE]

\* lines 363-366
OptVerbose(c) == [c EXCEPT !.verbose = TRUE, !.multithreaded = FALSE]

\* lines 368-372
OptObnoxious(c) ==
    [c EXCEPT !.verbose = TRUE, !.obnoxious = TRUE, !.multithreaded = FALSE]

\* lines 374-376: the argument is stored as getopt returned it, a str
OptSensitivity(c, arg) ==
    [c EXCEPT !.sensitivity = [kind |-> "str", val |-> NumberOf(arg)]]

\* The chain of lines 335-380 for one option.  -o only renames the output
\* file and -d has no branch; -h is handled by the caller (it exits).
OptionEffect(c, o) ==
    IF o.name = "-r" THEN OptRepo(c, o.arg)
    ELSE IF o.name = "-s" THEN OptSource(c, o.arg)
    ELSE IF o.name = "-m" THEN OptNoThreads(c)
    ELSE IF o.name = "-i" THEN OptNoIgnore(c)
    ELSE IF o.name = "-v" THEN OptVerbose(c)
    ELSE IF o.name = "-V" THEN OptObnoxious(c)
    ELSE IF o.name = "-S" THEN OptSensitivity(c, o.arg)
    ELSE c

\* the options getopt accepts ('r:s:o:md:iS:vVh'), with the arguments tried
Options ==
    { [name |-> "-h", arg |-> <<>>],
      [name |-> "-r", arg |-> <<".", "/", "r">>],
      [name |-> "-s", arg |-> <<"s", "/">>],
      [name |-> "-s", arg |-> <<"/", "s">>],
      [name |-> "-o", arg |-> <<"o">>],
      [name |-> "-m", arg |-> <<>>],
      [name |-> "-d", arg |-> <<"d">>],
      [name |-> "-i", arg |-> <<>>],
      [name |-> "-S", arg |-> <<"6">>],
      [name |-> "-v", arg |-> <<>>],
      [name |-> "-V", arg |-> <<>>] }

----------------------------------------------------------------------------
(* The snapshot /s and the repository: what os.walk, open and git return *)

d_lib == <<"l", "i", "b">>
d_github == <<".", "g", "i", "t", "h", "u", "b">>
d_big == <<"b", "i", "g">>

n_f == <<"f">>
n_png == <<"p", ".", "p", "n", "g">>
n_a == <<"a">>
n_b == <<"b">>
n_head == <<"H", "E", "A", "D">>
n_ci == <<"c", "i">>
n_long == <<"l">>

SnapshotPath == <<"/", "s">>

\* the files of a directory of the snapshot
FilesIn(dir) ==
    IF dir = <<>> THEN {n_f, n_png}
    ELSE IF dir = d_lib THEN {n_a, n_b}
    ELSE IF dir = dot_git THEN {n_head}
    ELSE IF dir = d_github THEN {n_ci}
    ELSE {n_long}

\* the snapshots: the directories of each (<<>> is the snapshot directory
\* itself)
Trees ==
    { {<<>>, dot_git},
      {<<>>, d_github, d_lib},
      {<<>>, d_big} }

\* os.scandir reports the entries of a directory in an order of its own:
\* the sequences that hold each element of S once
RECURSIVE Orders(_)
Orders(S) ==
    IF S = {} THEN {<<>>}
    ELSE UNION { {<<x>> \o o : o \in Orders(S \ {x})} : x \in S }

\* the orders in which os.walk, top down, can yield the directories of a
\* snapshot: the top first, the directories below it as scandir reported them
DirOrders(t) == {<< <<>> >> \o o : o \in Orders(t \ {<<>>})}

\* os.walk(source): the top as given, a directory below it joined to it
WalkRoot(src, dir) == IF dir = <<>> THEN src ELSE PathJoin(src, dir)

\* the path of a snapshot file below the snapshot directory
InSnapshot(current_file) == SliceFrom(current_file, Len(SnapshotPath) + 1)

\* the lines of a snapshot file
SnapshotLines(current_file) ==
    LET rel == InSnapshot(current_file) IN
    IF rel = n_f THEN
        << t_hello \o <<"\n">>, t_abce \o <<"\n">>, <<"\t">> \o t_world \o <<"\f", "\n">>,
           <<"x", "y", "z", "z", "y", "\n">> >>
    ELSE IF rel = d_lib \o <<"/">> \o n_a THEN
        << t_hello \o <<"\n">>, t_abcd \o <<"\n">>, t_abce \o <<"\n">>, t_world \o <<"\n">> >>
    ELSE IF rel = d_lib \o <<"/">> \o n_b THEN
        << t_hello \o <<"\n">> >>
    ELSE IF rel = n_png THEN
        << <<"xFF", "P", "N", "G", "xC3", "\n">> >>
    ELSE IF rel = d_github \o <<"/">> \o n_ci THEN
        << t_world \o <<"\n">> >>
    ELSE IF rel = d_big \o <<"/">> \o n_long THEN
        << t_hello \o <<"\n">>, <<"x", "y", "z", "z", "y", "\n">> >>
    ELSE << <<"r", "e", "f", ":", " ", "m", "\n">> >>

\* what git log prints for the path given after "--": nothing (it fails) for
\* a path that starts with / and so lies outside the repository, and nothing
\* for a file without history
GitOutput(path) ==
    IF IsAbs(path) THEN <<>>
    ELSE IF path = n_f THEN RawLog(<<1, 3>>, 2)
    ELSE IF path = d_lib \o <<"/">> \o n_a THEN RawLog(<<1>>, 1)
    ELSE IF path = d_github \o <<"/">> \o n_ci THEN RawLog(<<1>>, 1)
    ELSE IF path = d_big \o <<"/">> \o n_long
    THEN RawLog([i \in 1..LongCommit |-> IF i = LongCommit THEN 1 ELSE 0],
                LongCommit)
    ELSE <<>>

\* the sets of files open() can fail on: none, or lib/a (a link to a file
\* that does not exist) in a snapshot that has lib
Unopenable(t) ==
    IF d_lib \in t
    THEN {{}, {PathJoin(PathJoin(SnapshotPath, d_lib), n_a)}}
    ELSE {{}}

AllDirs == UNION Trees

AllFiles ==
    UNION { {PathJoin(WalkRoot(SnapshotPath, dir), n) : n \in FilesIn(dir)} :
                dir \in AllDirs }

----------------------------------------------------------------------------
(* analyze_file for the files of one directory (lines 72-310) *)

ignore_files_list ==
    << <<".", "s", "w", "p">>, <<".", "b", "i", "n">>, <<".", "p", "n", "g">>,
       <<".", "j", "p", "g">>, <<".", "g", "i", "f">>, <<".", "p", "d", "f">>,
       <<".", "e", "p", "s">>, <<".", "p", "s">>,
       <<"L", "I", "C", "E", "N", "S", "E">> >>

\* line 83
InGitDirectory(root, src) == StartsWith(root, PathJoin(src, dot_git))

\* line 93
OnIgnoreList(filename) ==
    \E i \in 1..Len(ignore_files_list) : EndsWith(filename, ignore_files_list[i])

\* Lines 102-295 for one file: the log is walked and reversed, the snapshot
\* file is opened and walked, the Unmatched row is inserted.  hash is the
\* value the local commit_hash has when the file is reached.  The result is
\* the error raised, if any, the rows of the table and the value of
\* commit_hash afterwards.
AnalyzeOne(src, root, filename, hash, sens, brk) ==
    LET current_file == PathJoin(root, filename)
        w == WalkLog([ctx |-> DefaultCtx(hash), git_log |-> <<>>, err |-> "none"],
                     Split(Decode(GitOutput(SliceFrom(current_file, Len(src))))))
        m == WalkFile([matched |-> 0, unmatched |-> 0, data |-> <<>>, err |-> "none"],
                      SnapshotLines(current_file), Reverse(w.git_log),
                      current_file, sens)
    IN IF w.err # "none"
       THEN [err |-> w.err, data |-> <<>>, commit_hash |-> w.ctx.commit_hash]
       ELSE IF current_file \in brk
       THEN [err |-> "OSError", data |-> <<>>, commit_hash |-> w.ctx.commit_hash]
       ELSE IF m.err # "none"
       THEN [err |-> m.err, data |-> <<>>, commit_hash |-> w.ctx.commit_hash]
       ELSE [err |-> "none",
             data |-> InsertUnmatched(m.data, current_file, m.unmatched),
             commit_hash |-> w.ctx.commit_hash]

----------------------------------------------------------------------------
(* Spec: the whole program *)

Procs == 0..NumWorkers

Workers == 1..NumWorkers

Init ==
    /\ sensitivity = DefaultSensitivity
    /\ multithreaded = TRUE
    /\ verbose = FALSE
    /\ obnoxious = FALSE
    /\ ignore_files = TRUE
    /\ source = <<>>
    /\ repo = <<>>
    /\ opt = NoOption
    /\ nopts = 0
    /\ mainpc = "opts"
    /\ tree \in Trees
    /\ listing = <<>>
    /\ walk = <<>>
    /\ broken \in Unopenable(tree)
    /\ pool = [created |-> FALSE, queue |-> <<>>, closed |-> FALSE]
    /\ proc = [p \in Procs |-> NoTask]
    /\ outfile = StaleUnits
    /\ analyzed = [f \in AllFiles |-> 0]
    /\ raised = {}
    /\ fpc = "idle"
    /\ git_log_raw = <<>>
    /\ readable = TRUE
    /\ loglines = <<>>
    /\ line = <<>>
    /\ ctx = DefaultCtx(Unbound)
    /\ git_log = <<>>
    /\ fileline = <<>>
    /\ seen = <<>>
    /\ matched = 0
    /\ unmatched = 0
    /\ data = <<>>
    /\ pending = <<>>
    /\ log_order = <<>>

\* lines 333-380: one option
ParseOpt ==
    /\ mainpc = "opts"
    /\ nopts < MaxOpts
    /\ \E o \in Options :
        LET c == OptionEffect(Config, o) IN
        /\ opt' = o
        /\ nopts' = nopts + 1
        /\ mainpc' = IF o.name = "-h" THEN "exit" ELSE "opts"
        /\ multithreaded' = c.multithreaded
        /\ verbose' = c.verbose
        /\ obnoxious' = c.obnoxious
        /\ sensitivity' = c.sensitivity
        /\ ignore_files' = c.ignore_files
        /\ source' = c.source
        /\ repo' = c.repo
    /\ UNCHANGED <<walk, pool, proc, outfile, tree, listing, broken, analyzed, raised,
                   filevars>>

\* lines 384-386: the options are exhausted and the loop of line 333 is
\* over (no option is being parsed any more; its variables are not read
\* again)
CheckInputs ==
    /\ mainpc = "opts"
    /\ mainpc' = IF source = <<>> \/ repo = <<>> THEN "exit" ELSE "header"
    /\ opt' = NoOption
    /\ nopts' = 0
    /\ UNCHANGED <<sensitivity, multithreaded, verbose, obnoxious, ignore_files,
                   source, repo, walk, pool, proc, outfile, tree, listing,
                   broken, analyzed, raised, filevars>>

WriteHeaderAppends ==
    /\ mainpc = "header"
    /\ outfile' = outfile \o HeaderUnits
    /\ mainpc' = "pool"
    /\ UNCHANGED <<sensitivity, multithreaded, verbose, obnoxious, ignore_files,
                   source, repo, opt, nopts, walk, pool, proc, tree, listing, broken,
                   analyzed, raised, filevars>>

\* lines 401-408: the output file is truncated, BOM and header are written
WriteHeader ==
    /\ mainpc = "header"
    /\ outfile' = HeaderUnits
    /\ mainpc' = "pool"
    /\ UNCHANGED <<sensitivity, multithreaded, verbose, obnoxious, ignore_files,
                   source, repo, opt, nopts, walk, pool, proc, tree, listing, broken,
                   analyzed, raised, filevars>>

\* lines 412-415: the pool is created and os.walk starts at the snapshot
\* directory; the order of the directories below it is the one scandir
\* reports
CreatePool ==
    /\ mainpc = "pool"
    /\ pool' = [pool EXCEPT !.created = multithreaded]
    /\ walk' \in DirOrders(tree)
    /\ mainpc' = "walk"
    /\ UNCHANGED <<sensitivity, multithreaded, verbose, obnoxious, ignore_files,
                   source, repo, opt, nopts, proc, outfile, tree, listing, broken,
                   analyzed, raised, filevars>>

\* the arguments of analyze_file for the next directory of the walk, whose
\* files os.walk reported as filenames
TaskFor(dir, filenames) ==
    [pc |-> "loop", dir |-> dir, root |-> WalkRoot(source, dir),
     filenames |-> filenames, idx |-> 1, commit_hash |-> Unbound,
     pending |-> <<>>]

\* lines 415-418: pool.apply_async(analyze_file, (root, filenames))
Submit ==
    /\ mainpc = "walk"
    /\ walk # <<>>
    /\ multithreaded
    /\ \E filenames \in Orders(FilesIn(Head(walk))) :
        /\ pool' = [pool EXCEPT
                       !.queue = Append(pool.queue, TaskFor(Head(walk), filenames))]
        /\ listing' = Append(listing, [dir |-> Head(walk), filenames |-> filenames])
    /\ walk' = Tail(walk)
    /\ UNCHANGED <<sensitivity, multithreaded, verbose, obnoxious, ignore_files,
                   source, repo, opt, nopts, mainpc, proc, outfile, tree, broken,
                   analyzed, raised, filevars>>

\* lines 415-420: analyze_file(root, filenames), called by the main program
CallSync ==
    /\ mainpc = "walk"
    /\ walk # <<>>
    /\ ~multithreaded
    /\ \E filenames \in Orders(FilesIn(Head(walk))) :
        /\ proc' = [proc EXCEPT ![0] = TaskFor(Head(walk), filenames)]
        /\ listing' = Append(listing, [dir |-> Head(walk), filenames |-> filenames])
    /\ walk' = Tail(walk)
    /\ mainpc' = "call"
    /\ UNCHANGED <<sensitivity, multithreaded, verbose, obnoxious, ignore_files,
                   source, repo, opt, nopts, pool, outfile, tree, broken,
                   analyzed, raised, filevars>>

\* lines 422-423: the walk is over
ClosePool ==
    /\ mainpc = "walk"
    /\ walk = <<>>
    /\ mainpc' = IF multithreaded THEN "join" ELSE "done"
    /\ pool' = [pool EXCEPT !.closed = multithreaded]
    /\ UNCHANGED <<sensitivity, multithreaded, verbose, obnoxious, ignore_files,
                   source, repo, opt, nopts, walk, proc, outfile, tree, listing, broken,
                   analyzed, raised, filevars>>

JoinPoolNoWait ==
    /\ mainpc = "join"
    /\ mainpc' = "done"
    /\ UNCHANGED <<sensitivity, multithreaded, verbose, obnoxious, ignore_files,
                   source, repo, opt, nopts, walk, pool, proc, outfile, tree, listing,
                   broken, analyzed, raised, filevars>>

\* lines 424-429: pool.join() returns when every task has ended
JoinPool ==
    /\ mainpc = "join"
    /\ pool.queue = <<>>
    /\ \A p \in Workers : proc[p].pc = "idle"
    /\ mainpc' = "done"
    /\ UNCHANGED <<sensitivity, multithreaded, verbose, obnoxious, ignore_files,
                   source, repo, opt, nopts, walk, pool, proc, outfile, tree, listing,
                   broken, analyzed, raised, filevars>>

\* a pool worker takes the next task of the queue
TakeTask(p) ==
    /\ p \in Workers
    /\ pool.created
    /\ proc[p].pc = "idle"
    /\ pool.queue # <<>>
    /\ proc' = [proc EXCEPT ![p] = Head(pool.queue)]
    /\ pool' = [pool EXCEPT !.queue = Tail(pool.queue)]
    /\ UNCHANGED <<sensitivity, multithreaded, verbose, obnoxious, ignore_files,
                   source, repo, opt, nopts, mainpc, walk, outfile, tree, listing, broken,
                   analyzed, raised, filevars>>

\* where the main program continues when analyze_file ends in process p
AfterCall(p, how) ==
    IF p # 0 THEN mainpc
    ELSE IF how = "return" THEN "walk"
    ELSE "crashed"

\* line 79: the loop over filenames is exhausted, analyze_file returns
Return(p) ==
    /\ proc[p].pc = "loop"
    /\ proc[p].idx > Len(proc[p].filenames)
    /\ proc' = [proc EXCEPT ![p] = NoTask]
    /\ mainpc' = AfterCall(p, "return")
    /\ UNCHANGED <<sensitivity, multithreaded, verbose, obnoxious, ignore_files,
                   source, repo, opt, nopts, walk, pool, outfile, tree, listing, broken,
                   analyzed, raised, filevars>>

\* lines 83-89: break
SkipGitDirectory(p) ==
    /\ proc[p].pc = "loop"
    /\ proc[p].idx <= Len(proc[p].filenames)
    /\ InGitDirectory(proc[p].root, source)
    /\ proc' = [proc EXCEPT ![p] = NoTask]
    /\ mainpc' = AfterCall(p, "return")
    /\ UNCHANGED <<sensitivity, multithreaded, verbose, obnoxious, ignore_files,
                   source, repo, opt, nopts, walk, pool, outfile, tree, listing, broken,
                   analyzed, raised, filevars>>

\* lines 93-100: continue
SkipIgnored(p) ==
    /\ proc[p].pc = "loop"
    /\ proc[p].idx <= Len(proc[p].filenames)
    /\ ~InGitDirectory(proc[p].root, source)
    /\ ignore_files
    /\ OnIgnoreList(proc[p].filenames[proc[p].idx])
    /\ proc' = [proc EXCEPT ![p].idx = @ + 1]
    /\ UNCHANGED <<sensitivity, multithreaded, verbose, obnoxious, ignore_files,
                   source, repo, opt, nopts, mainpc, walk, pool, outfile, tree, listing,
                   broken, analyzed, raised, filevars>>

\* lines 102-307: one file is analyzed and its rows are handed to the csv
\* writer; an error raised on the way ends analyze_file (in a pool worker
\* the task ends and the error stays in the unread result, in the main
\* program the traceback ends the run)
Analyze(p) ==
    /\ proc[p].pc = "loop"
    /\ proc[p].idx <= Len(proc[p].filenames)
    /\ ~InGitDirectory(proc[p].root, source)
    /\ ~(ignore_files /\ OnIgnoreList(proc[p].filenames[proc[p].idx]))
    /\ LET filename == proc[p].filenames[proc[p].idx]
           current_file == PathJoin(proc[p].root, filename)
           r == AnalyzeOne(source, proc[p].root, filename, proc[p].commit_hash,
                           sensitivity, broken)
       IN IF r.err = "none"
          THEN /\ proc' = [proc EXCEPT ![p].pc = "flush",
                                       ![p].commit_hash = r.commit_hash,
                                       ![p].pending = Serialize(r.data)]
               /\ analyzed' = [analyzed EXCEPT ![current_file] = @ + 1]
               /\ UNCHANGED <<mainpc, raised>>
          ELSE /\ proc' = [proc EXCEPT ![p] = NoTask]
               /\ raised' = raised \cup {current_file}
               /\ mainpc' = AfterCall(p, "raise")
               /\ UNCHANGED analyzed
    /\ UNCHANGED <<sensitivity, multithreaded, verbose, obnoxious, ignore_files,
                   source, repo, opt, nopts, walk, pool, outfile, tree, listing, broken,
                   filevars>>

WorkerWriteTruncating(p) ==
    /\ proc[p].pc = "flush"
    /\ proc[p].pending # <<>>
    /\ outfile' = FirstChunk(proc[p].pending)
    /\ proc' = [proc EXCEPT ![p].pending = RestChunk(@)]
    /\ UNCHANGED <<sensitivity, multithreaded, verbose, obnoxious, ignore_files,
                   source, repo, opt, nopts, mainpc, walk, pool, tree, listing, broken,
                   analyzed, raised, filevars>>

\* line 308: one write() of buffered rows, appended to the output file
WorkerWrite(p) ==
    /\ proc[p].pc = "flush"
    /\ proc[p].pending # <<>>
    /\ outfile' = outfile \o FirstChunk(proc[p].pending)
    /\ proc' = [proc EXCEPT ![p].pending = RestChunk(@)]
    /\ UNCHANGED <<sensitivity, multithreaded, verbose, obnoxious, ignore_files,
                   source, repo, opt, nopts, mainpc, walk, pool, tree, listing, broken,
                   analyzed, raised, filevars>>

\* lines 308-310: the output file and the database are closed; next file
WorkerClose(p) ==
    /\ proc[p].pc = "flush"
    /\ proc[p].pending = <<>>
    /\ proc' = [proc EXCEPT ![p].pc = "loop", ![p].idx = @ + 1]
    /\ UNCHANGED <<sensitivity, multithreaded, verbose, obnoxious, ignore_files,
                   source, repo, opt, nopts, mainpc, walk, pool, outfile, tree, listing,
                   broken, analyzed, raised, filevars>>

Next ==
    \/ ParseOpt
    \/ CheckInputs
    \/ WriteHeader
    \/ CreatePool
    \/ Submit
    \/ CallSync
    \/ ClosePool
    \/ JoinPool
    \/ \E p \in Procs : TakeTask(p)
    \/ \E p \in Procs : Return(p)
    \/ \E p \in Procs : SkipGitDirectory(p)
    \/ \E p \in Procs : SkipIgnored(p)
    \/ \E p \in Procs : Analyze(p)
    \/ \E p \in Procs : WorkerWrite(p)
    \/ \E p \in Procs : WorkerClose(p)

Spec == Init /\ [][Next]_vars

\* the steps of the main program once its options are read
MainStep ==
    \/ WriteHeader
    \/ CreatePool
    \/ Submit
    \/ CallSync
    \/ ClosePool
    \/ JoinPool

\* the steps of the process p that runs analyze_file, other than Analyze(p)
\* and WorkerWrite(p)
ProcStep(p) ==
    \/ TakeTask(p)
    \/ Return(p)
    \/ SkipGitDirectory(p)
    \/ SkipIgnored(p)
    \/ WorkerClose(p)

\* the guard of WorkerWrite(p): process p holds rows that are not written
WriteDue(p) ==
    /\ proc[p].pc = "flush"
    /\ proc[p].pending # <<>>

\* the guard of Analyze(p): process p stands before a file to analyze
AnalyzeDue(p) ==
    /\ proc[p].pc = "loop"
    /\ proc[p].idx <= Len(proc[p].filenames)
    /\ ~InGitDirectory(proc[p].root, source)
    /\ ~(ignore_files /\ OnIgnoreList(proc[p].filenames[proc[p].idx]))

\* The program under a fair scheduler: once the options are read, the main
\* program and every process that can take a step eventually takes one (git,
\* the reads and the writes return).  Analyze(p) is enabled exactly when
\* AnalyzeDue(p) holds, only Analyze(p) ends AnalyzeDue(p), and it always
\* does; WorkerWrite(p) is enabled exactly when WriteDue(p) holds, only
\* WorkerWrite(p) ends WriteDue(p), and it does after as many steps as there
\* are writes left.  So the last two conjuncts are weak fairness of
\* Analyze(p) and of WorkerWrite(p), written with their guards.
FairSpec ==
    /\ Init /\ [][Next]_vars
    /\ WF_vars(MainStep)
    /\ \A p \in Procs : WF_vars(ProcStep(p))
    /\ \A p \in Procs : []<>(~AnalyzeDue(p))
    /\ \A p \in Procs : []<>(~WriteDue(p))

----------------------------------------------------------------------------
(* Notions used to state the properties of analyze_file *)

\* log_order keeps the patch records in the order the log emitted them (most
\* recent commit first): the value of git_log before line 227 reverses it.
LogOrder == log_order

\* the positions, in log order, of the records whose text is the trimmed line
Hits(fl) == {i \in 1..Len(LogOrder) : Encode(LogOrder[i].linetext) = StripBytes(fl)}

Max(S) == CHOOSE x \in S : \A y \in S : y <= x

\* a qualifying line: trimmed length at least the configured threshold
Qualifies(fl) == Len(StripBytes(fl)) >= sensitivity.val

QualifyingSeen == {i \in 1..Len(seen) : Qualifies(seen[i])}

\* the sum of number_lines over the rows of d that have key k
RECURSIVE CountFor(_, _)
CountFor(d, k) ==
    IF d = <<>> THEN 0
    ELSE (IF KeyOf(Head(d)) = k THEN Head(d).number_lines ELSE 0)
         + CountFor(Tail(d), k)

RECURSIVE Total(_)
Total(d) ==
    IF d = <<>> THEN 0 ELSE Head(d).number_lines + Total(Tail(d))

RowKeys(d) == {KeyOf(d[i]) : i \in 1..Len(d)}

\* the key a classified line contributed to: that of the first record of
\* git_log with the line's text
MatchingRecords(fl) ==
    {i \in 1..Len(git_log) : Encode(git_log[i].linetext) = StripBytes(fl)}

ContributedKey(fl) ==
    MatchKey(CurrentFile,
             git_log[CHOOSE i \in MatchingRecords(fl) :
                        \A j \in MatchingRecords(fl) : i <= j])

Contributors(k) ==
    {i \in QualifyingSeen :
        MatchingRecords(seen[i]) # {} /\ ContributedKey(seen[i]) = k}

ContributedKeys ==
    {ContributedKey(seen[i]) :
        i \in {j \in QualifyingSeen : MatchingRecords(seen[j]) # {}}}

Classified == fpc \in {"flush", "done"}

\* the rows that reached the output file, in file order
RECURSIVE RowsIn(_)
RowsIn(out) ==
    IF out = <<>> THEN <<>>
    ELSE IF Head(out).kind = "row"
         THEN <<Head(out).row>> \o RowsIn(Tail(out))
         ELSE RowsIn(Tail(out))

IsUnmatchedRow(r) ==
    /\ r.author_name = Unmatched
    /\ r.author_email = Unmatched
    /\ r.author_date = Unmatched
    /\ r.committer_name = Unmatched
    /\ r.committer_email = Unmatched
    /\ r.committer_date = Unmatched

UnmatchedRows(d) == {i \in 1..Len(d) : IsUnmatchedRow(d[i])}

----------------------------------------------------------------------------
(* Properties of analyze_file on one file (SpecFile) *)

\* C1: a classified qualifying line whose trimmed text was added by one or
\* several commits is attributed to the oldest of them, the last such record
\* in log order, and makes exactly one contribution: matched and the count of
\* that key grow by one, no other count changes.
EarliestMatchPolicy ==
    [][ (fpc = "lines" /\ fpc' = "lines" /\ Len(seen') = Len(seen) + 1
         /\ Qualifies(fileline') /\ Hits(fileline') # {})
        => LET k == MatchKey(CurrentFile, LogOrder[Max(Hits(fileline'))])
           IN /\ matched' = matched + 1
              /\ unmatched' = unmatched
              /\ CountFor(data', k) = CountFor(data, k) + 1
              /\ Total(data') = Total(data) + 1 ]_vars

\* a line was attributed whose text two different commits added
EarliestMatchWitness ==
    /\ fpc = "lines"
    /\ seen # <<>>
    /\ matched > 0
    /\ Cardinality({LogOrder[i].commit_hash : i \in Hits(fileline)}) >= 2

\* C2: once the file is classified, every key that received a matched line
\* has exactly one row, and its number_lines is the number of matched lines
\* that contributed the key.
DedupInvariant ==
    Classified =>
        \A k \in ContributedKeys :
            /\ Cardinality({i \in 1..Len(data) : KeyOf(data[i]) = k}) = 1
            /\ \A i \in 1..Len(data) :
                  KeyOf(data[i]) = k
                      => data[i].number_lines = Cardinality(Contributors(k))

\* two keys received lines, one of them twice
DedupWitness ==
    /\ fpc = "done"
    /\ Cardinality(ContributedKeys) >= 2
    /\ \E k \in ContributedKeys : Cardinality(Contributors(k)) >= 2

\* C3: when the line loop has ended, matched + unmatched is the number of
\* qualifying lines of the file.
Completeness ==
    Classified => matched + unmatched = Cardinality(QualifyingSeen)

\* a file with a matched, an unmatched and a skipped line
CompletenessWitness ==
    /\ fpc = "done"
    /\ matched > 0
    /\ unmatched > 0
    /\ Cardinality(QualifyingSeen) < Len(seen)

\* C4: the rows flushed for a file hold an Unmatched row exactly when
\* unmatched > 0; there is at most one, its commit hash is N/A and its
\* number_lines is the unmatched count.
UnmatchedRowEmission ==
    fpc = "done" =>
        LET rows == SubSeq(RowsIn(outfile), 1, Len(RowsIn(outfile)))
        IN /\ (UnmatchedRows(rows) # {}) <=> (unmatched > 0)
           /\ Cardinality(UnmatchedRows(rows)) <= 1
           /\ \A i \in UnmatchedRows(rows) :
                 /\ rows[i].commit_hash = NotApplicable
                 /\ rows[i].number_lines = unmatched

\* a flush with an Unmatched row next to an attributed row
UnmatchedRowWitness ==
    /\ fpc = "done"
    /\ unmatched > 0
    /\ matched > 0
    /\ UnmatchedRows(RowsIn(outfile)) # {}

\* C5 (as claimed): a line whose trimmed length is below the configured
\* threshold is skipped: the counters and the rows stay as they are and the
\* loop goes on.
SensitivityFilter ==
    [][ (fpc = "lines" /\ Len(seen') = Len(seen) + 1
         /\ Len(StripBytes(fileline')) < sensitivity.val)
        => /\ matched' = matched
           /\ unmatched' = unmatched
           /\ data' = data
           /\ fpc' = "lines" ]_vars

\* C9: when git printed nothing, the walk over the log raises no error and
\* leaves git_log empty; a file that is then classified has every qualifying
\* line counted unmatched, and what is flushed is the single Unmatched row
\* with that count, or nothing when no line qualifies.
EmptyHistory ==
    git_log_raw = <<>> =>
        /\ fpc # "NameError"
        /\ git_log = <<>>
        /\ Classified =>
              /\ matched = 0
              /\ unmatched = Cardinality(QualifyingSeen)
              /\ data = IF Cardinality(QualifyingSeen) > 0
                        THEN <<RowOf(UnmatchedKey(CurrentFile),
                                     Cardinality(QualifyingSeen))>>
                        ELSE <<>>
        /\ fpc = "done" => RowsIn(outfile) = data

\* an empty history and a file with qualifying lines, flushed
EmptyHistoryWitness ==
    /\ git_log_raw = <<>>
    /\ fpc = "done"
    /\ Cardinality(QualifyingSeen) >= 2
    /\ Len(RowsIn(outfile)) = 1

----------------------------------------------------------------------------
(* Notions used to state the properties of the whole program *)

IsRowOf(u, f) == u.kind = "row" /\ u.row.filename = f

\* the places <<directory, file name>> of the files the walk has reported
Places ==
    UNION { {<<listing[d].dir, listing[d].filenames[i]>> :
                i \in 1..Len(listing[d].filenames)} : d \in 1..Len(listing) }

\* the eligible files: those that pass the two filters of lines 83-100
EligiblePlaces ==
    {pl \in Places :
        /\ ~InGitDirectory(WalkRoot(source, pl[1]), source)
        /\ ~(ignore_files /\ OnIgnoreList(pl[2]))}

PathOf(pl) == PathJoin(WalkRoot(source, pl[1]), pl[2])

\* the per-file aggregate of a file: the rows analyze_file computes for it
AggregateOf(pl) ==
    AnalyzeOne(source, WalkRoot(source, pl[1]), pl[2], Unbound,
               sensitivity, broken).data

\* the positions of the output file where row r stands
Occurrences(r) ==
    {i \in 1..Len(outfile) : outfile[i].kind = "row" /\ outfile[i].row = r}

----------------------------------------------------------------------------
(* Properties of the whole program (Spec) *)

\* C6 (as claimed): in multi-worker mode the rows of one file are contiguous
\* in the output file: nothing that is not a row of file A stands between
\* two rows of file A.
OutputSerialization ==
    multithreaded =>
        \A i, k \in 1..Len(outfile) :
            (i < k /\ outfile[i].kind = "row"
                   /\ IsRowOf(outfile[k], outfile[i].row.filename))
                => \A j \in i..k : IsRowOf(outfile[j], outfile[i].row.filename)

\* C7: when the coordinator has finished a run in which no error was raised,
\* every eligible file of the walk has been analyzed exactly once and every
\* row of its aggregate stands in the output file exactly once.
ExactlyOnceDelivery ==
    (mainpc = "done" /\ raised = {}) =>
        \A pl \in EligiblePlaces :
            /\ analyzed[PathOf(pl)] = 1
            /\ \A i \in 1..Len(AggregateOf(pl)) :
                  Cardinality(Occurrences(AggregateOf(pl)[i])) = 1

\* C8 (as claimed): when a file has raised an error the run does not abort,
\* and at its end every other eligible file has been analyzed and its rows
\* have been written.
FailureIsolation ==
    raised # {} =>
        /\ mainpc # "crashed"
        /\ mainpc = "done" =>
              \A pl \in EligiblePlaces :
                  PathOf(pl) \notin raised =>
                      /\ analyzed[PathOf(pl)] >= 1
                      /\ \A i \in 1..Len(AggregateOf(pl)) :
                            Occurrences(AggregateOf(pl)[i]) # {}

\* a pool run over two directories that has finished: two files of
\* different directories were analyzed, one with more rows than one write()
\* carries
ExactlyOnceWitness ==
    /\ mainpc = "done"
    /\ multithreaded
    /\ raised = {}
    /\ Cardinality({pl[1] : pl \in {q \in EligiblePlaces : analyzed[PathOf(q)] = 1}}) >= 2
    /\ \E pl \in EligiblePlaces :
          ChunkLen(Serialize(AggregateOf(pl))) < Len(AggregateOf(pl))

\* C10: parsing -v or -V leaves verbose true and multithreaded false; no
\* option sets multithreaded back to true or verbose back to false; and a
\* verbose run creates no pool, gives no work to a pool worker and runs
\* analyze_file in the main program only.
VerbosityForcesSingleThread ==
    /\ [][ (mainpc = "opts" /\ nopts' = nopts + 1 /\ opt'.name \in {"-v", "-V"})
           => (verbose' /\ ~multithreaded') ]_vars
    /\ [][ (~multithreaded => ~multithreaded') /\ (verbose => verbose') ]_vars
    /\ [](verbose =>
            /\ ~multithreaded
            /\ ~pool.created
            /\ pool.queue = <<>>
            /\ \A p \in Workers : proc[p].pc = "idle"
            /\ proc[0].pc # "idle" => mainpc = "call")

\* a verbose run that has analyzed a file in the main program and finished
VerbosityWitness ==
    /\ verbose
    /\ ~obnoxious
    /\ mainpc = "done"
    /\ \E f \in AllFiles : analyzed[f] = 1

----------------------------------------------------------------------------
(* Determinism of a run *)

\* What one call of analyze_file on a directory leaves behind, from the i-th
\* file name on, when the local commit_hash has the value hash: the rows it
\* flushes and whether it ended by raising.
RECURSIVE BatchOutcome(_, _, _, _)
BatchOutcome(dir, names, i, hash) ==
    LET root == WalkRoot(source, dir)
    IN IF i > Len(names) THEN [rows |-> {}, err |-> FALSE]
       ELSE IF InGitDirectory(root, source) THEN [rows |-> {}, err |-> FALSE]
       ELSE IF ignore_files /\ OnIgnoreList(names[i])
       THEN BatchOutcome(dir, names, i + 1, hash)
       ELSE LET r == AnalyzeOne(source, root, names[i], hash, sensitivity, broken)
            IN IF r.err # "none" THEN [rows |-> {}, err |-> TRUE]
               ELSE LET rest == BatchOutcome(dir, names, i + 1, r.commit_hash)
                    IN [rows |-> {r.data[j] : j \in 1..Len(r.data)} \cup rest.rows,
                        err |-> rest.err]

\* The rows of a run over the directories dirs, each with the file names
\* os.walk reported for it, as a function of the snapshot, the history and
\* the options alone: in a pool run every batch is processed, in a
\* single-threaded run an error ends the run.
RECURSIVE RunRows(_)
RunRows(dirs) ==
    IF dirs = <<>> THEN {}
    ELSE LET b == BatchOutcome(Head(dirs).dir, Head(dirs).filenames, 1, Unbound)
         IN b.rows \cup (IF b.err /\ ~multithreaded THEN {} ELSE RunRows(Tail(dirs)))

\* the set of data rows in the output file
RowSet == {outfile[i].row : i \in {j \in 1..Len(outfile) : outfile[j].kind = "row"}}

\* C11: when a run has ended, the set of rows in the output file is the one
\* the snapshot, the history and the options determine, whatever the order
\* in which the workers ran, and nothing of what the file held before the
\* run is left in it.
DeterministicOutput ==
    mainpc \in {"done", "crashed"} =>
        /\ RowSet = RunRows(listing)
        /\ \A i \in 1..Len(outfile) : outfile[i].kind # "stale"

\* a finished pool run in which a row of lib/a was written before a row of
\* f, although the walk yields the directory of f first
DeterministicWitness ==
    /\ mainpc = "done"
    /\ multithreaded
    /\ \E i, j \in 1..Len(outfile) :
          /\ i < j
          /\ outfile[i].kind = "row"
          /\ outfile[j].kind = "row"
          /\ outfile[i].row.filename = PathJoin(PathJoin(source, d_lib), n_a)
          /\ outfile[j].row.filename = PathJoin(source, n_f)

----------------------------------------------------------------------------
(* Properties of the walk over the log (SpecFile) *)

\* a log line was consumed by this step
LogLineRead == fpc = "log" /\ Len(loglines') = Len(loglines) - 1

\* the line begins with the addition marker and has content that is not
\* whitespace after it
MarkedAddition(l) ==
    /\ Len(l) >= 1
    /\ l[1] = "+"
    /\ \E i \in 2..Len(l) : l[i] \notin Whitespace

\* C12: a step of the log walk changes git_log only by appending one record,
\* and only for a line that begins with '+' and has non-whitespace content
\* after the marker; the record's linetext is that content trimmed.  A line
\* that is not such an addition (a removal, a context line, a header line, a
\* diff-metadata line, a whitespace-only addition) leaves git_log as it is.
OnlyAdditions ==
    [][ LogLineRead =>
          /\ git_log' # git_log =>
                /\ MarkedAddition(line')
                /\ Len(git_log') = Len(git_log) + 1
                /\ SubSeq(git_log', 1, Len(git_log)) = git_log
                /\ git_log'[Len(git_log')].linetext
                      = Strip(SubSeq(line', 2, Len(line')))
          /\ ~MarkedAddition(line') => git_log' = git_log ]_vars

\* a removal has been read while git_log already holds records, one of them
\* from an addition with blanks after the marker
OnlyAdditionsWitness ==
    /\ fpc = "log"
    /\ Len(line) >= 1
    /\ line[1] = "-"
    /\ ~StartsWith(line, p_minus3)
    /\ git_log # <<>>
    /\ \E i \in 1..Len(git_log) : git_log[i].linetext = t_world

\* the line of a diff header that names the new file: "+++ b/f"
NewFileHeader == <<"+", "+", "+", " ", "b", "/", "f">>

\* C13 (as claimed): every line of a patch body that begins with '+' and has
\* non-whitespace content after the marker appends exactly one record to
\* git_log, with the hash and the author and committer fields of the commit
\* context current when the line is read and the trimmed content as text.
EveryAdditionRecorded ==
    [][ (LogLineRead /\ MarkedAddition(line') /\ line' # NewFileHeader) =>
          /\ fpc' = "log"
          /\ ctx.commit_hash # Unbound
          /\ git_log' = Append(git_log,
                [commit_hash |-> ctx.commit_hash,
                 author_name |-> ctx.author_name,
                 author_email |-> ctx.author_email,
                 author_date |-> ctx.author_date,
                 committer_name |-> ctx.committer_name,
                 committer_email |-> ctx.committer_email,
                 committer_date |-> ctx.committer_date,
                 linetext |-> Strip(SubSeq(line', 2, Len(line')))]) ]_vars

\* the log lines read so far, when rest are the lines still to be read
Consumed(rest) ==
    LET all == Split(Decode(git_log_raw))
    IN SubSeq(all, 1, Len(all) - Len(rest))

\* the position of the last 'hash: ' line of ls, 0 when there is none
LastHash(ls) ==
    IF \E i \in 1..Len(ls) : StartsWith(ls[i], p_hash)
    THEN Max({i \in 1..Len(ls) : StartsWith(ls[i], p_hash)})
    ELSE 0

\* a line with the prefix p stands in ls after the last 'hash: ' line
SeenSinceHash(ls, p) ==
    \E i \in (LastHash(ls) + 1)..Len(ls) : StartsWith(ls[i], p)

\* the header prefix that sets each field of the commit context
FieldPrefix ==
    [author_name |-> p_author_name, author_email |-> p_author_email,
     author_date |-> p_author_date, committer_name |-> p_committer_name,
     committer_email |-> p_committer_email,
     committer_date |-> p_committer_date]

\* the commit that has the hash h
CommitOf(h) == CHOOSE i \in 1..MaxCommits : HashOf(i) = h

\* the author and committer fields of commit i: the names and addresses with
\* their quotes escaped, the day of the dates
CommitFields(i) ==
    [author_name |-> EscapeQuote(NameOf(i)),
     author_email |-> EscapeQuote(EmailOf(i)),
     author_date |-> SubSeq(DateOf(i), 1, 10),
     committer_name |-> EscapeQuote(NameOf(CommitterOf(i))),
     committer_email |-> EscapeQuote(EmailOf(CommitterOf(i))),
     committer_date |-> SubSeq(DateOf(i), 1, 10)]

\* C14: a record appended after a 'hash: ' line carries the hash of that
\* line and, in every author and committer field, '(Unknown)' when the
\* header line of the field has not been read since that 'hash: ' line and
\* the value of its own commit when it has; it carries no value of another
\* commit of the log.
CommitContextReset ==
    [][ (LogLineRead /\ Len(git_log') = Len(git_log) + 1) =>
          \A ls \in {Consumed(loglines')} :
            \A r \in {git_log'[Len(git_log')]} :
              LastHash(ls) > 0 =>
                /\ r.commit_hash = SliceFrom(ls[LastHash(ls)], 6)
                /\ \A f \in DOMAIN FieldPrefix :
                      r[f] = IF SeenSinceHash(ls, FieldPrefix[f])
                             THEN CommitFields(CommitOf(r.commit_hash))[f]
                             ELSE Unknown ]_vars

----------------------------------------------------------------------------
(* Properties of the flush of one file (SpecFile) *)

\* C15: no row is in the output file before the line loop has ended and the
\* Unmatched row has been inserted; rows are written only during the flush,
\* while the table and the counters stay as they are; what has been written
\* and what is still buffered are together the rows of the table, so that
\* after the flush the output holds exactly the table; and no written row
\* has number_lines = 0.
FlushAfterClassification ==
    /\ [](~Classified => RowsIn(outfile) = <<>>)
    /\ [][ outfile' # outfile =>
             /\ fpc = "flush"
             /\ fpc' = "flush"
             /\ data' = data
             /\ seen' = seen
             /\ matched' = matched
             /\ unmatched' = unmatched ]_vars
    /\ [](Classified =>
             /\ data = InsertUnmatched(data, CurrentFile, unmatched)
             /\ RowsIn(outfile) \o RowsIn(pending) = data)
    /\ [](fpc = "done" => RowsIn(outfile) = data)
    /\ [](\A i \in 1..Len(outfile) :
             outfile[i].kind = "row" => outfile[i].row.number_lines > 0)

\* a file flushed with the rows of two commits and the Unmatched row
FlushWitness ==
    /\ fpc = "done"
    /\ Len(RowsIn(outfile)) >= 3
    /\ UnmatchedRows(RowsIn(outfile)) # {}
    /\ matched > 0

----------------------------------------------------------------------------
(* Shutdown of a pool run (FairSpec) *)

\* C16: a pool run that has written its header eventually reports
\* completion; when it does, the walk is exhausted, no batch is waiting in
\* the queue or running in a worker, and nothing is buffered; and once
\* completion is reported the output file and the processes stay as they
\* are.
OrderlyShutdown ==
    /\ (mainpc = "pool" /\ multithreaded) ~> (mainpc = "done")
    /\ []((mainpc = "done" /\ multithreaded) =>
             /\ walk = <<>>
             /\ pool.closed
             /\ pool.queue = <<>>
             /\ \A p \in Workers : proc[p].pc = "idle" /\ proc[p].pending = <<>>)
    /\ [][ mainpc = "done" => (outfile' = outfile /\ proc' = proc) ]_vars

\* a pool run that reported completion after one batch had raised and
\* another had written its rows
ShutdownWitness ==
    /\ mainpc = "done"
    /\ multithreaded
    /\ pool.closed
    /\ raised # {}
    /\ RowSet # {}

----------------------------------------------------------------------------
(* Conservation of the line counts (SpecFile) *)

\* the rows of d that are not the Unmatched row
RECURSIVE AggregateRows(_)
AggregateRows(d) ==
    IF d = <<>> THEN <<>>
    ELSE IF IsUnmatchedRow(Head(d)) THEN AggregateRows(Tail(d))
    ELSE <<Head(d)>> \o AggregateRows(Tail(d))

\* C17: for a file processed to the end, number_lines summed over all rows
\* flushed for the file is the number of its qualifying lines, and summed
\* over the rows other than the Unmatched row it is the matched counter.
RowCountConservation ==
    fpc = "done" =>
        /\ Total(RowsIn(outfile)) = Cardinality(QualifyingSeen)
        /\ Total(AggregateRows(RowsIn(outfile))) = matched

\* a flushed file with a row that counts two attributed lines and an
\* Unmatched row
RowCountWitness ==
    /\ fpc = "done"
    /\ \E i \in 1..Len(AggregateRows(RowsIn(outfile))) :
          AggregateRows(RowsIn(outfile))[i].number_lines >= 2
    /\ unmatched > 0

----------------------------------------------------------------------------
(* Failure of one file (SpecFile) *)

\* analyze_file has ended by raising
Failed == fpc \in {"NameError", "OSError", "TypeError"}

\* C18: when analyze_file has raised before the flush, the output file holds
\* no row of the file and nothing is buffered for it, whatever had been
\* aggregated; and when analyze_file has ended, by raising or by returning,
\* the output holds either no row of the file or all rows of its table.
AllOrNothing ==
    /\ Failed => (RowsIn(outfile) = <<>> /\ pending = <<>>)
    /\ (Failed \/ fpc = "done") => RowsIn(outfile) \in {<<>>, data}

\* the read of the snapshot file failed after lines had been matched and
\* rows stood in the table
AllOrNothingWitness ==
    /\ fpc = "OSError"
    /\ matched > 0
    /\ data # <<>>
    /\ Len(seen) >= 2

----------------------------------------------------------------------------
(* The filter on directories (Spec) *)

\* the directory dir of the snapshot is its .git directory or lies below it
IsGitMetadata(dir) ==
    \/ dir = dot_git
    \/ StartsWith(dir, dot_git \o <<"/">>)

\* C19 (as claimed): in a finished run without errors the files of the .git
\* directory, and of the directories below it, have not been analyzed, and
\* the files of every other directory that are not on the ignore list have
\* been analyzed, also those of a directory such as .github whose name only
\* begins with ".git".
MetadataDirectorySkip ==
    (mainpc = "done" /\ raised = {}) =>
        \A pl \in Places :
            /\ IsGitMetadata(pl[1]) => analyzed[PathOf(pl)] = 0
            /\ (/\ ~IsGitMetadata(pl[1])
                /\ ~(ignore_files /\ OnIgnoreList(pl[2])))
                  => analyzed[PathOf(pl)] = 1

----------------------------------------------------------------------------
(* The header of the output file (Spec) *)

\* the main program has not reached the end of the header block yet
BeforeHeader == mainpc \in {"opts", "exit", "header"}

\* C20: until the header is written no pool exists, no process is inside
\* analyze_file and no file has been analyzed; from then on the output file
\* begins with the byte order mark and the header, holds no other header and
\* nothing older, and everything after the header is a data row.
HeaderFirst ==
    /\ BeforeHeader =>
          /\ ~pool.created
          /\ pool.queue = <<>>
          /\ \A p \in Procs : proc[p].pc = "idle"
          /\ \A f \in AllFiles : analyzed[f] = 0
    /\ ~BeforeHeader =>
          /\ Len(outfile) >= 2
          /\ outfile[1].kind = "bom"
          /\ outfile[2].kind = "header"
          /\ \A i \in 3..Len(outfile) : outfile[i].kind = "row"

\* two workers are in their flush, rows of both stand behind the header
HeaderFirstWitness ==
    /\ multithreaded
    /\ Cardinality({p \in Workers : proc[p].pc = "flush"}) >= 2
    /\ Cardinality({outfile[i].row.filename :
                       i \in {j \in 1..Len(outfile) : outfile[j].kind = "row"}}) >= 2

====
